---- MODULE Spec2Model ----
(***************************************************************************)
(* Water-quality monitor (src/code.ino): the control loop with its command *)
(* interpreter, run state, clock-gated scheduler and acquisition cycle.    *)
(*                                                                         *)
(* Representation of the sketch's values:                                  *)
(*   - unsigned long (32 bit) is a pair <<hi, lo>> of 16-bit halves, so    *)
(*     that arithmetic modulo 2^32 stays inside TLC's integers;            *)
(*   - a float voltage or pH is an integer count of 1/10000 (2.29 V is     *)
(*     22900), a TDS value an integer count of 1/100 ppm;                  *)
(*   - a String read from the console is a sequence of one-character       *)
(*     strings; a line printed to a serial port is a TLA+ string.          *)
(* Time: rtc is the real time in ms since midnight of the day on which the *)
(* model starts (the DS3231 reports its whole seconds), millis the ms      *)
(* counter of the board, both advanced by the same elapsed time.           *)
(***************************************************************************)
EXTENDS Integers, Sequences, FiniteSets, TLC

(***************************************************************************)
(* Bounds of the model.  Several sets of inputs drive the same actions:    *)
(* Spec follows the scheduler over a full reading interval with a few      *)
(* commands, SpecConsole follows the interpreter and the acquisition cycle *)
(* over a few seconds with every command line and every combination of     *)
(* labels, SpecWrap and SpecLive follow the loop long after boot, across   *)
(* the wrap of the ms counter.  SpecPH applies the pH stage of the cycle   *)
(* to every pH voltage.                                                    *)
(***************************************************************************)
\* Spec and SpecConsole follow the board for this many ms after boot.
MaxMillis == 62000
ConsoleMillis == 2000
\* SpecWrap follows the board for this many ms from one second before the ms
\* counter wraps.
WrapMillis == 4000
\* SpecLive follows the board for this many ms from 30 seconds before the ms
\* counter wraps.
LiveMillis == 63000
\* SpecPH applies the pH stage of the acquisition cycle to every pH voltage
\* from 0 to this many ten-thousandths of a volt (5 V, the ADC's reference).
MaxVoltage == 50000

\* Wall-clock time of hour:minute:second, in ms since midnight.
TimeOfDay(hour, minute, second) == ((hour * 60 + minute) * 60 + second) * 1000

Inputs ==
  [ \* the time of day at which the board boots
    boot |-> {TimeOfDay(9, 59, 0), TimeOfDay(9, 59, 59), TimeOfDay(21, 59, 59)},
    \* the time that passes before a loop() call tests Serial.available():
    \* nothing, a second, or a long stretch that stands for the many calls
    \* made meanwhile; the stretch is allowed in either run state, so the
    \* timing of the model is no tighter than that of the board
    idle |-> {0, 1000, 58000},
    \* the time one acquisition cycle spends printing at 9600 baud
    read |-> {200},
    \* the lines typed on the console, as readStringUntil('\n') returns them
    lines |-> { <<"s", "t">>, <<"s">>, <<"c">>, <<"r">>, <<"R">>, <<"x">> },
    \* the raw ADC samples offered on the three analog pins
    pH |-> {471, 620},
    turbidity |-> {410},
    tds |-> {357},
    \* the reading of the ms counter when the model starts, and the ms the
    \* model follows from there
    start |-> <<0, 0>>,
    horizon |-> MaxMillis ]

ConsoleInputs ==
  [ boot |-> {TimeOfDay(9, 59, 59)},
    idle |-> {0, 1000},
    read |-> {0, 200},
    lines |-> { <<"s", "t">>, <<"s">>, <<"c">>, <<"r">>, <<"R">>,
                <<"S", "T">>, <<"S">>, <<"C">>, <<>>, <<"x">>,
                <<"s", "t", "o", "p">>, <<" ", "s", "t", "\r">>,
                <<"r", "\r">>, <<" ">> },
    pH |-> {204, 205, 468, 471, 512, 613, 614, 620},
    turbidity |-> {409, 410},
    tds |-> {357, 358},
    start |-> <<0, 0>>,
    horizon |-> ConsoleMillis ]

WrapInputs ==
  [ \* the time of day when the model starts: two seconds before 10:00:00
    boot |-> {TimeOfDay(9, 59, 58)},
    idle |-> {0, 1000},
    read |-> {200},
    lines |-> { <<"s", "t">>, <<"s">>, <<"c">>, <<"r">>, <<"x">> },
    pH |-> {471},
    turbidity |-> {410},
    tds |-> {357},
    \* the ms counter when the model starts: 2^32 - 1000
    start |-> <<65535, 64536>>,
    horizon |-> WrapMillis,
    \* the ms since the last periodic reading when the model starts: while
    \* Running less than the reading interval, while Halted any time
    running |-> {1000, 58000, 59000},
    halted |-> {1000, 59000, 70000, 2000000000} ]

LiveInputs ==
  [ \* the time of day when the model starts: 10:00:00 comes as the next
    \* periodic reading falls due
    boot |-> {TimeOfDay(9, 59, 1)},
    \* every loop() call takes time: a tenth of a second or a second passes
    \* from one test of Serial.available() to the next, so that no call
    \* overshoots the end of the model
    idle |-> {100, 1000},
    read |-> {200},
    lines |-> { <<"s", "t">>, <<"s">>, <<"c">>, <<"r">>, <<"x">> },
    pH |-> {471},
    turbidity |-> {410},
    tds |-> {357},
    \* the ms counter when the model starts: 2^32 - 30000
    start |-> <<65535, 35536>>,
    horizon |-> LiveMillis,
    \* a periodic reading was taken a second before the model starts
    running |-> {1000},
    halted |-> {1000} ]

(***************************************************************************)
(* Program constants.                                                      *)
(***************************************************************************)
readingInterval == 60000
temperature == 25
HaltedDelay == 100
\* A pause of half a second after the daily log.
DailyDelayHalf == 1000 \div 2
DailyDelay == 1000
ClearLines == 50

(***************************************************************************)
(* unsigned long arithmetic.                                               *)
(***************************************************************************)
Half == 256 * 256

U32(n) == <<(n \div Half) % Half, n % Half>>

U32Add(a, n) ==
  LET lo == a[2] + (n % Half)
      hi == a[1] + (n \div Half) + (lo \div Half)
  IN  <<hi % Half, lo % Half>>

U32Sub(a, b) ==
  LET lo == a[2] - b[2]
      hi == a[1] - b[1] - (IF lo < 0 THEN 1 ELSE 0)
  IN  <<hi % Half, lo % Half>>

U32Geq(a, b) == a[1] > b[1] \/ (a[1] = b[1] /\ a[2] >= b[2])

(***************************************************************************)
(* String: trim() and equalsIgnoreCase().                                  *)
(***************************************************************************)
isspace(c) == c \in {" ", "\t", "\n", "\r", "\f"}

RECURSIVE trimLeft(_)
trimLeft(s) ==
  IF s # <<>> /\ isspace(Head(s)) THEN trimLeft(Tail(s)) ELSE s

RECURSIVE trimRight(_)
trimRight(s) ==
  IF s # <<>> /\ isspace(s[Len(s)])
  THEN trimRight(SubSeq(s, 1, Len(s) - 1))
  ELSE s

trim(s) == trimRight(trimLeft(s))

UpperCase == <<"A", "B", "C", "D", "E", "F", "G", "H", "I", "J", "K", "L", "M",
               "N", "O", "P", "Q", "R", "S", "T", "U", "V", "W", "X", "Y", "Z">>
LowerCase == <<"a", "b", "c", "d", "e", "f", "g", "h", "i", "j", "k", "l", "m",
               "n", "o", "p", "q", "r", "s", "t", "u", "v", "w", "x", "y", "z">>

tolower(c) ==
  IF \E i \in 1..Len(UpperCase) : UpperCase[i] = c
  THEN LowerCase[CHOOSE i \in 1..Len(UpperCase) : UpperCase[i] = c]
  ELSE c

equalsIgnoreCase(s, t) ==
  /\ Len(s) = Len(t)
  /\ \A i \in 1..Len(s) : tolower(s[i]) = tolower(t[i])

(***************************************************************************)
(* Print::println(float, 2): round to two decimals, then the digits.       *)
(***************************************************************************)
TwoDigits(n) == IF n < 10 THEN "0" \o ToString(n) ELSE ToString(n)

\* h is a count of hundredths, h >= 0.
printHundredths(h) == ToString(h \div 100) \o "." \o TwoDigits(h % 100)

\* x is a count of 1/10000, x >= 0.
printFloat2(x) == printHundredths((x + 50) \div 100)

(***************************************************************************)
(* Calibration and classification.                                         *)
(***************************************************************************)
\* (raw / 1023.0) * 5.0, in 1/10000 V.
voltageOf(raw) == (raw * 50000) \div 1023

mapVoltageToPH(voltage, pHLow, pHHigh, voltageLow, voltageHigh) ==
  pHLow + ((voltage - voltageLow) * (pHHigh - pHLow)) \div (voltageHigh - voltageLow)

\* pHFromVoltage that holds the pH of the nearest band end outside the bands.
pHFromVoltageClamped(pHVoltage) ==
  IF pHVoltage < 10000 THEN 70000
  ELSE IF pHVoltage < 16000
  THEN mapVoltageToPH(pHVoltage, 70000, 80000, 10000, 16000)
  ELSE IF pHVoltage < 20000
  THEN mapVoltageToPH(pHVoltage, 80000, 90000, 16000, 20000)
  ELSE IF pHVoltage < 25000
  THEN mapVoltageToPH(pHVoltage, 60000, 75000, 20000, 25000)
  ELSE IF pHVoltage < 30000
  THEN mapVoltageToPH(pHVoltage, 75000, 90000, 25000, 30000)
  ELSE 90000

\* pHFromVoltage whose band from 2.0 V to 2.5 V starts where the band below
\* ends, at pH 9.0.
pHFromVoltageContinuous(pHVoltage) ==
  IF pHVoltage >= 10000 /\ pHVoltage < 16000
  THEN mapVoltageToPH(pHVoltage, 70000, 80000, 10000, 16000)
  ELSE IF pHVoltage >= 16000 /\ pHVoltage < 20000
  THEN mapVoltageToPH(pHVoltage, 80000, 90000, 16000, 20000)
  ELSE IF pHVoltage >= 20000 /\ pHVoltage < 25000
  THEN mapVoltageToPH(pHVoltage, 90000, 75000, 20000, 25000)
  ELSE IF pHVoltage >= 25000 /\ pHVoltage < 30000
  THEN mapVoltageToPH(pHVoltage, 75000, 90000, 25000, 30000)
  ELSE 0

pHFromVoltage(pHVoltage) ==
  IF pHVoltage >= 10000 /\ pHVoltage < 16000
  THEN mapVoltageToPH(pHVoltage, 70000, 80000, 10000, 16000)
  ELSE IF pHVoltage >= 16000 /\ pHVoltage < 20000
  THEN mapVoltageToPH(pHVoltage, 80000, 90000, 16000, 20000)
  ELSE IF pHVoltage >= 20000 /\ pHVoltage < 25000
  THEN mapVoltageToPH(pHVoltage, 60000, 75000, 20000, 25000)
  ELSE IF pHVoltage >= 25000 /\ pHVoltage < 30000
  THEN mapVoltageToPH(pHVoltage, 75000, 90000, 25000, 30000)
  ELSE 0

\* evaluatePHQuality without the gap between 2.29 V and 2.30 V: acidic below
\* 2.30 V.
evaluatePHQualityNoGap(voltage, pH) ==
  IF voltage < 23000 THEN "Acidic - Bad"
  ELSE IF voltage <= 25000 THEN "Good"
  ELSE "Bad - Alkaline"

\* evaluatePHQuality that judges the pH value instead of the voltage.
evaluatePHQualityByValue(voltage, pH) ==
  IF pH < 65000 THEN "Acidic - Bad"
  ELSE IF pH <= 85000 THEN "Good"
  ELSE "Bad - Alkaline"

evaluatePHQuality(voltage, pH) ==
  IF voltage <= 22900
  THEN "Acidic - Bad"
  ELSE IF voltage >= 23000 /\ voltage <= 25000
  THEN "Good"
  ELSE "Bad - Alkaline"

evaluateTurbidityQuality(voltage) ==
  IF voltage >= 20000 /\ voltage <= 50000 THEN "Good" ELSE "Bad"

evaluateTDSQuality(tds) ==
  IF tds <= 50000 THEN "Good" ELSE "Bad"

\* The result is in 1/100 ppm.  v is (rawValue / 1024.0) * 5.0 in 1/1024 V;
\* the cubic is summed term by term in 1/100 ppm, each product cut to 1/100.
calculateTDS(rawValue) ==
  LET v == rawValue * 5
      times(x) == (x * v) \div 1024
      cubic == times(times(times(13342)))
      square == times(times(25586))
      linear == times(85739)
      tds == ((cubic - square + linear) * 5) \div 10
      calibrated == (tds * 7) \div 10
      compensation == 100 + 2 * (temperature - 25)
  IN  (calibrated * 100) \div compensation

\* evaluateOverallQuality with || for &&.
evaluateOverallQualityAny(pHQuality, turbidityQuality, tdsQuality) ==
  LET overall == IF pHQuality = "Good" \/ turbidityQuality = "Good" \/ tdsQuality = "Good"
                 THEN "Excellent"
                 ELSE "Poor, Needs Treatment"
  IN  <<"Overall Water Quality: " \o overall>>
      \o (IF overall # "Excellent" THEN <<"Water may require treatment.">> ELSE <<>>)
      \o <<"------------------------------------------">>

\* The lines it prints; the advisory is written without its warning sign.
evaluateOverallQuality(pHQuality, turbidityQuality, tdsQuality) ==
  LET overall == IF pHQuality = "Good" /\ turbidityQuality = "Good" /\ tdsQuality = "Good"
                 THEN "Excellent"
                 ELSE "Poor, Needs Treatment"
  IN  <<"Overall Water Quality: " \o overall>>
      \o (IF overall # "Excellent" THEN <<"Water may require treatment.">> ELSE <<>>)
      \o <<"------------------------------------------">>

formatTime12Hour(hour, minute, second) ==
  LET am_pm == IF hour >= 12 THEN "PM" ELSE "AM"
      h1 == IF hour > 12 THEN hour - 12 ELSE hour
      h2 == IF h1 = 0 THEN 12 ELSE h1
  IN  TwoDigits(h2) \o ":" \o TwoDigits(minute) \o ":" \o TwoDigits(second)
      \o " " \o am_pm

logSensorValues(t) ==
  <<"Logging Sensor Values at: " \o formatTime12Hour(t.hour, t.minute, t.second)>>

\* readAllSensors that sends the pH label to the ESP32 link as well.
readAllSensorsSendsLabel(pHRaw, turbRaw, tdsRaw) ==
  LET pHVoltage == voltageOf(pHRaw)
      pHValue == pHFromVoltage(pHVoltage)
      pHQuality == evaluatePHQuality(pHVoltage, pHValue)
      turbVoltage == voltageOf(turbRaw)
      turbQuality == evaluateTurbidityQuality(turbVoltage)
      tds == calculateTDS(tdsRaw)
      tdsQuality == evaluateTDSQuality(tds)
  IN  [ console |->
          << "pH Value: " \o printFloat2(pHValue),
             "pH Quality: " \o pHQuality,
             "Turbidity Voltage: " \o printFloat2(turbVoltage),
             "Turbidity Quality: " \o turbQuality,
             "TDS Value: " \o printHundredths(tds),
             "TDS Quality: " \o tdsQuality >>
          \o evaluateOverallQuality(pHQuality, turbQuality, tdsQuality),
        mySerial |-> << printFloat2(pHValue), pHQuality >>,
        reading |-> [voltage |-> pHVoltage, pH |-> pHValue,
                     quality |-> pHQuality] ]

\* What one acquisition cycle writes to the console and to the ESP32 link.
readAllSensors(pHRaw, turbRaw, tdsRaw) ==
  LET pHVoltage == voltageOf(pHRaw)
      pHValue == pHFromVoltage(pHVoltage)
      pHQuality == evaluatePHQuality(pHVoltage, pHValue)
      turbVoltage == voltageOf(turbRaw)
      turbQuality == evaluateTurbidityQuality(turbVoltage)
      tds == calculateTDS(tdsRaw)
      tdsQuality == evaluateTDSQuality(tds)
  IN  [ console |->
          << "pH Value: " \o printFloat2(pHValue),
             "pH Quality: " \o pHQuality,
             "Turbidity Voltage: " \o printFloat2(turbVoltage),
             "Turbidity Quality: " \o turbQuality,
             "TDS Value: " \o printHundredths(tds),
             "TDS Quality: " \o tdsQuality >>
          \o evaluateOverallQuality(pHQuality, turbQuality, tdsQuality),
        mySerial |-> << printFloat2(pHValue) >>,
        reading |-> [voltage |-> pHVoltage, pH |-> pHValue,
                     quality |-> pHQuality] ]

(***************************************************************************)
(* State.                                                                  *)
(***************************************************************************)
VARIABLES
  pc,               \* where the sketch is: "setup", "halt" (the while(1) of
                    \* setup), "loop" (between two loop() calls), "check"
                    \* (line 91), "periodic" (line 104)
  isRunning,        \* the run state: TRUE is Running, FALSE is Halted
  lastReadingTime,  \* unsigned long
  millis,           \* the board's ms counter, unsigned long
  rtc,              \* real time, ms since midnight of the day on which
                    \* the model starts
  command,          \* loop()'s trimmed command, NoCommand when none was read
  now,              \* loop()'s sample of the clock, NoSample before line 96
  console,          \* lines written to Serial by the current loop() call
  mySerial,         \* lines written to the ESP32 link by the current call
  trace,            \* what the current loop() call has done, in order
  dailyLogs,        \* the second (since that midnight) sampled by
                    \* each daily log emitted so far
  tenSampled,       \* the days on which a Running iteration sampled the
                    \* clock during the second 10:00:00
  reading,          \* readAllSensors()'s pHVoltage, pHValue and pHQuality in
                    \* its last call of the current loop() call
  lastReadingAt     \* the real time, on the scale of rtc, at which
                    \* lastReadingTime was assigned

vars == << pc, isRunning, lastReadingTime, millis, rtc, command, now, console,
           mySerial, trace, dailyLogs, tenSampled, reading, lastReadingAt >>

NoCommand == << "<none>" >>
NoSample == [hour |-> -1, minute |-> -1, second |-> -1]
NoReading == [voltage |-> -1, pH |-> -1, quality |-> "<none>"]

\* RTC_DS3231::now(): the calendar time of the current second.
RtcNow ==
  LET s == (rtc \div 1000) % 86400
  IN  [hour |-> s \div 3600, minute |-> (s % 3600) \div 60, second |-> s % 60]

RtcDay == rtc \div 86400000

\* ms since boot, while the counter has not wrapped.
Uptime == millis[1] * Half + millis[2]

\* d ms pass: delay(d), or the time a call takes.  The model follows the
\* board for in.horizon ms from the counter value in.start.
Elapse(in, d) ==
  /\ LET e == U32Sub(millis, in.start)
     IN  e[1] = 0 /\ e[2] + d <= in.horizon
  /\ millis' = U32Add(millis, d)
  /\ rtc' = rtc + d

InitOf(in) ==
  /\ pc = "setup"
  /\ isRunning = TRUE
  /\ lastReadingTime = U32(0)
  /\ millis = U32(0)
  /\ rtc \in in.boot
  /\ command = NoCommand
  /\ now = NoSample
  /\ console = <<>>
  /\ mySerial = <<>>
  /\ trace = <<>>
  /\ dailyLogs = <<>>
  /\ tenSampled = {}
  /\ reading = NoReading
  /\ lastReadingAt = rtc

(***************************************************************************)
(* setup()                                                                 *)
(***************************************************************************)
Banner ==
  << "System initialized.",
     "Available commands: stop, start, clear, read.",
     "Press:", "s  -> start", "st -> stop", "c  -> clear", "r  -> read",
     "-----------" >>

\* SetupNoRtc without the while (1): setup() goes on and returns.
SetupNoRtcGoesOn ==
  /\ pc = "setup"
  /\ pc' = "loop"
  /\ console' = <<"Couldn't find RTC">> \o Banner
  /\ UNCHANGED << isRunning, lastReadingTime, millis, rtc, command, now,
                  mySerial, trace, dailyLogs, tenSampled, reading,
                  lastReadingAt >>

\* rtc.begin() fails: the sketch spins in while (1) for ever.
SetupNoRtc ==
  /\ pc = "setup"
  /\ pc' = "halt"
  /\ console' = <<"Couldn't find RTC">>
  /\ UNCHANGED << isRunning, lastReadingTime, millis, rtc, command, now,
                  mySerial, trace, dailyLogs, tenSampled, reading,
                  lastReadingAt >>

\* rtc.begin() succeeds; a clock that lost power is set to the build time.
Setup(in) ==
  /\ pc = "setup"
  /\ pc' = "loop"
  /\ \E lostPower \in BOOLEAN :
       IF lostPower
       THEN /\ rtc' \in in.boot
            /\ console' = <<"RTC lost power, setting the time!">> \o Banner
       ELSE /\ rtc' = rtc
            /\ console' = Banner
  \* no time has passed since boot, on the clock as it is now set
  /\ lastReadingAt' = rtc'
  /\ UNCHANGED << isRunning, lastReadingTime, millis, command, now,
                  mySerial, trace, dailyLogs, tenSampled, reading >>

(***************************************************************************)
(* loop(), lines 74-89: the command interpreter.                           *)
(***************************************************************************)
\* Dispatch with "r" compared by ==, like the other commands.
DispatchExactRead(cmd) ==
  IF cmd = <<"s", "t">> THEN "st"
  ELSE IF cmd = <<"s">> THEN "s"
  ELSE IF cmd = <<"c">> THEN "c"
  ELSE IF cmd = <<"r">> THEN "r"
  ELSE "none"

\* Dispatch with every command compared by equalsIgnoreCase().
DispatchIgnoreCase(cmd) ==
  IF equalsIgnoreCase(cmd, <<"s", "t">>) THEN "st"
  ELSE IF equalsIgnoreCase(cmd, <<"s">>) THEN "s"
  ELSE IF equalsIgnoreCase(cmd, <<"c">>) THEN "c"
  ELSE IF equalsIgnoreCase(cmd, <<"r">>) THEN "r"
  ELSE "none"

\* The branch of the if / else-if chain that a trimmed command takes.
Dispatch(cmd) ==
  IF cmd = <<"s", "t">> THEN "st"
  ELSE IF cmd = <<"s">> THEN "s"
  ELSE IF cmd = <<"c">> THEN "c"
  ELSE IF equalsIgnoreCase(cmd, <<"r">>) THEN "r"
  ELSE "none"

\* A loop() call begins: its locals are new, nothing is written yet.
Begin ==
  /\ pc = "loop"
  /\ pc' = "check"
  /\ now' = NoSample
  /\ trace' = <<"command">>
  /\ UNCHANGED << lastReadingTime, dailyLogs, tenSampled, lastReadingAt >>

\* Serial.available() is 0.
NoInput(in) ==
  \E d \in in.idle :
    /\ Begin
    /\ Elapse(in, d)
    /\ command' = NoCommand
    /\ console' = <<>>
    /\ mySerial' = <<>>
    /\ reading' = NoReading
    /\ UNCHANGED isRunning

\* CommandStop whose flag is not written.
CommandStopNoEffect(in) ==
  \E d \in in.idle, line \in in.lines :
    /\ Dispatch(trim(line)) = "st"
    /\ Begin
    /\ Elapse(in, d)
    /\ command' = trim(line)
    /\ console' = <<"Execution halted.">>
    /\ mySerial' = <<>>
    /\ reading' = NoReading
    /\ UNCHANGED isRunning

CommandStop(in) ==
  \E d \in in.idle, line \in in.lines :
    /\ Dispatch(trim(line)) = "st"
    /\ Begin
    /\ Elapse(in, d)
    /\ command' = trim(line)
    /\ isRunning' = FALSE
    /\ console' = <<"Execution halted.">>
    /\ mySerial' = <<>>
    /\ reading' = NoReading

CommandStart(in) ==
  \E d \in in.idle, line \in in.lines :
    /\ Dispatch(trim(line)) = "s"
    /\ Begin
    /\ Elapse(in, d)
    /\ command' = trim(line)
    /\ isRunning' = TRUE
    /\ console' = <<"Execution resumed.">>
    /\ mySerial' = <<>>
    /\ reading' = NoReading

CommandClear(in) ==
  \E d \in in.idle, line \in in.lines :
    /\ Dispatch(trim(line)) = "c"
    /\ Begin
    /\ Elapse(in, d)
    /\ command' = trim(line)
    /\ console' = [i \in 1..ClearLines |-> " "]
    /\ mySerial' = <<>>
    /\ reading' = NoReading
    /\ UNCHANGED isRunning

\* CommandRead that also resumes execution.
CommandReadResumes(in) ==
  \E d \in in.idle, line \in in.lines, t \in in.read,
     pHRaw \in in.pH, turbRaw \in in.turbidity, tdsRaw \in in.tds :
    /\ Dispatch(trim(line)) = "r"
    /\ Begin
    /\ Elapse(in, d + t)
    /\ command' = trim(line)
    /\ console' = readAllSensors(pHRaw, turbRaw, tdsRaw).console
    /\ mySerial' = readAllSensors(pHRaw, turbRaw, tdsRaw).mySerial
    /\ reading' = readAllSensors(pHRaw, turbRaw, tdsRaw).reading
    /\ isRunning' = TRUE

\* CommandRead that restarts the reading interval, as a periodic reading does.
CommandReadRestartsInterval(in) ==
  \E d \in in.idle, line \in in.lines, t \in in.read,
     pHRaw \in in.pH, turbRaw \in in.turbidity, tdsRaw \in in.tds :
    /\ Dispatch(trim(line)) = "r"
    /\ pc = "loop"
    /\ pc' = "check"
    /\ now' = NoSample
    /\ trace' = <<"command">>
    /\ Elapse(in, d + t)
    /\ lastReadingTime' = U32Add(millis, d)
    /\ lastReadingAt' = rtc + d
    /\ command' = trim(line)
    /\ console' = readAllSensors(pHRaw, turbRaw, tdsRaw).console
    /\ mySerial' = readAllSensors(pHRaw, turbRaw, tdsRaw).mySerial
    /\ reading' = readAllSensors(pHRaw, turbRaw, tdsRaw).reading
    /\ UNCHANGED << isRunning, dailyLogs, tenSampled >>

CommandRead(in) ==
  \E d \in in.idle, line \in in.lines, t \in in.read,
     pHRaw \in in.pH, turbRaw \in in.turbidity, tdsRaw \in in.tds :
    /\ Dispatch(trim(line)) = "r"
    /\ Begin
    /\ Elapse(in, d + t)
    /\ command' = trim(line)
    /\ console' = readAllSensors(pHRaw, turbRaw, tdsRaw).console
    /\ mySerial' = readAllSensors(pHRaw, turbRaw, tdsRaw).mySerial
    /\ reading' = readAllSensors(pHRaw, turbRaw, tdsRaw).reading
    /\ UNCHANGED isRunning

CommandOther(in) ==
  \E d \in in.idle, line \in in.lines :
    /\ Dispatch(trim(line)) = "none"
    /\ Begin
    /\ Elapse(in, d)
    /\ command' = trim(line)
    /\ console' = <<>>
    /\ mySerial' = <<>>
    /\ reading' = NoReading
    /\ UNCHANGED isRunning

(***************************************************************************)
(* loop(), lines 91-94: Halted.                                            *)
(***************************************************************************)
\* LoopHalted without its return: the call goes on to line 104.
LoopHaltedNoReturn(in) ==
  /\ pc = "check"
  /\ ~isRunning
  /\ Elapse(in, HaltedDelay)
  /\ pc' = "periodic"
  /\ trace' = Append(trace, "delay")
  /\ UNCHANGED << isRunning, lastReadingTime, command, now, console, mySerial,
                  dailyLogs, tenSampled, reading, lastReadingAt >>

LoopHalted(in) ==
  /\ pc = "check"
  /\ ~isRunning
  /\ Elapse(in, HaltedDelay)
  /\ pc' = "loop"
  /\ trace' = Append(trace, "delay")
  /\ UNCHANGED << isRunning, lastReadingTime, command, now, console, mySerial,
                  dailyLogs, tenSampled, reading, lastReadingAt >>

(***************************************************************************)
(* loop(), lines 96-102: the daily log.                                    *)
(***************************************************************************)
\* DailyDue on a 12-hour clock.
DailyDue12Hour(t) == t.hour % 12 = 10 /\ t.minute = 0 /\ t.second = 0

\* DailyDue for the whole minute 10:00.
DailyDueMinute(t) == t.hour = 10 /\ t.minute = 0

DailyDue(t) == t.hour = 10 /\ t.minute = 0 /\ t.second = 0

LoopDaily(in) ==
  /\ pc = "check"
  /\ isRunning
  /\ pc' = "periodic"
  /\ now' = RtcNow
  /\ tenSampled' = IF (rtc \div 1000) % 86400 = 36000
                   THEN tenSampled \cup {RtcDay}
                   ELSE tenSampled
  /\ IF DailyDue(RtcNow)
     THEN /\ console' = console \o logSensorValues(RtcNow)
          /\ dailyLogs' = Append(dailyLogs, rtc \div 1000)
          /\ trace' = trace \o <<"sample", "log", "delay">>
          /\ Elapse(in, DailyDelay)
     ELSE /\ trace' = Append(trace, "sample")
          /\ UNCHANGED << console, dailyLogs, millis, rtc >>
  /\ UNCHANGED << isRunning, lastReadingTime, command, mySerial, reading,
                  lastReadingAt >>

(***************************************************************************)
(* loop(), lines 104-107: the periodic reading.                            *)
(***************************************************************************)
\* PeriodicDue with > for >=.
PeriodicDueStrict ==
  /\ U32Geq(U32Sub(millis, lastReadingTime), U32(readingInterval))
  /\ U32Sub(millis, lastReadingTime) # U32(readingInterval)

\* PeriodicDue written as millis() >= lastReadingTime + readingInterval.
PeriodicDueNoWrap == U32Geq(millis, U32Add(lastReadingTime, readingInterval))

\* PeriodicDue with == for >=.
PeriodicDueExact == U32Sub(millis, lastReadingTime) = U32(readingInterval)

PeriodicDue == U32Geq(U32Sub(millis, lastReadingTime), U32(readingInterval))

\* LoopPeriodic that advances lastReadingTime by the interval instead of
\* setting it to millis(), so that missed readings are caught up.
LoopPeriodicCatchUp(in) ==
  /\ pc = "periodic"
  /\ pc' = "loop"
  /\ IF PeriodicDue
     THEN \E t \in in.read, pHRaw \in in.pH, turbRaw \in in.turbidity,
             tdsRaw \in in.tds :
            /\ lastReadingTime' = U32Add(lastReadingTime, readingInterval)
            /\ lastReadingAt' = rtc
            /\ console' = console \o readAllSensors(pHRaw, turbRaw, tdsRaw).console
            /\ mySerial' = mySerial \o readAllSensors(pHRaw, turbRaw, tdsRaw).mySerial
            /\ reading' = readAllSensors(pHRaw, turbRaw, tdsRaw).reading
            /\ trace' = Append(trace, "read")
            /\ Elapse(in, t)
     ELSE /\ trace' = Append(trace, "skip")
          /\ UNCHANGED << lastReadingTime, lastReadingAt, console, mySerial,
                          reading, millis, rtc >>
  /\ UNCHANGED << isRunning, command, now, dailyLogs, tenSampled >>

LoopPeriodic(in) ==
  /\ pc = "periodic"
  /\ pc' = "loop"
  /\ IF PeriodicDue
     THEN \E t \in in.read, pHRaw \in in.pH, turbRaw \in in.turbidity,
             tdsRaw \in in.tds :
            /\ lastReadingTime' = millis
            /\ lastReadingAt' = rtc
            /\ console' = console \o readAllSensors(pHRaw, turbRaw, tdsRaw).console
            /\ mySerial' = mySerial \o readAllSensors(pHRaw, turbRaw, tdsRaw).mySerial
            /\ reading' = readAllSensors(pHRaw, turbRaw, tdsRaw).reading
            /\ trace' = Append(trace, "read")
            /\ Elapse(in, t)
     ELSE /\ trace' = Append(trace, "skip")
          /\ UNCHANGED << lastReadingTime, lastReadingAt, console, mySerial,
                          reading, millis, rtc >>
  /\ UNCHANGED << isRunning, command, now, dailyLogs, tenSampled >>

NextOf(in) ==
  \/ SetupNoRtc
  \/ Setup(in)
  \/ NoInput(in)
  \/ CommandStop(in)
  \/ CommandStart(in)
  \/ CommandClear(in)
  \/ CommandRead(in)
  \/ CommandOther(in)
  \/ LoopHalted(in)
  \/ LoopDaily(in)
  \/ LoopPeriodic(in)

Init == InitOf(Inputs)
Next == NextOf(Inputs)
Spec == Init /\ [][Next]_vars

InitConsole == InitOf(ConsoleInputs)
NextConsole == NextOf(ConsoleInputs)
SpecConsole == InitConsole /\ [][NextConsole]_vars

(***************************************************************************)
(* The control loop long after boot, when the ms counter is about to wrap: *)
(* the sketch is between two loop() calls, Running or Halted, the last     *)
(* periodic reading some time back.                                        *)
(***************************************************************************)
InitAt(in) ==
  /\ pc = "loop"
  /\ millis = in.start
  /\ rtc \in in.boot
  /\ isRunning \in BOOLEAN
  /\ \E e \in (IF isRunning THEN in.running ELSE in.halted) :
       /\ lastReadingTime = U32Sub(millis, U32(e))
       /\ lastReadingAt = rtc - e
  /\ command = NoCommand
  /\ now = IF isRunning THEN RtcNow ELSE NoSample
  /\ console = <<>>
  /\ mySerial = <<>>
  /\ trace = IF isRunning THEN <<"command", "sample", "skip">>
             ELSE <<"command", "delay">>
  /\ dailyLogs = <<>>
  /\ tenSampled = {}
  /\ reading = NoReading

\* loop(), called again and again.
LoopOf(in) ==
  \/ NoInput(in)
  \/ CommandStop(in)
  \/ CommandStart(in)
  \/ CommandClear(in)
  \/ CommandRead(in)
  \/ CommandOther(in)
  \/ LoopHalted(in)
  \/ LoopDaily(in)
  \/ LoopPeriodic(in)

InitWrap == InitAt(WrapInputs)
NextWrap == LoopOf(WrapInputs)
SpecWrap == InitWrap /\ [][NextWrap]_vars

\* loop() is called for ever: an enabled step of the loop is taken in the
\* end.  Each call takes time, so time advances with the calls.
InitLive == InitAt(LiveInputs)
NextLive == LoopOf(LiveInputs)
SpecLive == InitLive /\ [][NextLive]_vars /\ WF_vars(NextLive)

(***************************************************************************)
(* readAllSensors(), lines 116-130, as functions of the pH voltage: the    *)
(* voltage is drawn from the whole range, the pH value is computed from    *)
(* it, then the label; the voltage then rises by one step.  The label is   *)
(* computed with the pH value of the cycle and with other values of        *)
(* evaluatePHQuality()'s second parameter.                                 *)
(***************************************************************************)
OtherPH == {0, 70000}

InitPH ==
  /\ pc = "voltage"
  /\ \E v \in 0..MaxVoltage :
       reading = [voltage |-> v, pH |-> -1, quality |-> "<none>"]
  /\ isRunning = TRUE
  /\ lastReadingTime = U32(0)
  /\ millis = U32(0)
  /\ rtc = 0
  /\ command = NoCommand
  /\ now = NoSample
  /\ console = <<>>
  /\ mySerial = <<>>
  /\ trace = <<>>
  /\ dailyLogs = <<>>
  /\ tenSampled = {}
  /\ lastReadingAt = 0

\* Lines 119-128.
ComputePH ==
  /\ pc = "voltage"
  /\ pc' = "value"
  /\ reading' = [reading EXCEPT !.pH = pHFromVoltage(reading.voltage)]
  /\ UNCHANGED << isRunning, lastReadingTime, millis, rtc, command, now,
                  console, mySerial, trace, dailyLogs, tenSampled,
                  lastReadingAt >>

\* Line 130.
LabelPH ==
  /\ pc = "value"
  /\ pc' = "label"
  /\ \E pH \in {reading.pH} \cup OtherPH :
       reading' = [reading EXCEPT
                     !.quality = evaluatePHQuality(reading.voltage, pH)]
  /\ UNCHANGED << isRunning, lastReadingTime, millis, rtc, command, now,
                  console, mySerial, trace, dailyLogs, tenSampled,
                  lastReadingAt >>

\* The next cycle finds the voltage one step higher: lines 116-128 again.
RaiseVoltage ==
  /\ pc = "label"
  /\ reading.voltage < MaxVoltage
  /\ pc' = "value"
  /\ reading' = [voltage |-> reading.voltage + 1,
                 pH |-> pHFromVoltage(reading.voltage + 1),
                 quality |-> "<none>"]
  /\ UNCHANGED << isRunning, lastReadingTime, millis, rtc, command, now,
                  console, mySerial, trace, dailyLogs, tenSampled,
                  lastReadingAt >>

NextPH == ComputePH \/ LabelPH \/ RaiseVoltage
SpecPH == InitPH /\ [][NextPH]_vars

(***************************************************************************)
(* Properties.                                                             *)
(***************************************************************************)
Stop == <<"s", "t">>
Start == <<"s">>
Clear == <<"c">>
Reads == { <<"r">>, <<"R">> }

Excellent == "Overall Water Quality: Excellent"
NeedsTreatment == "Overall Water Quality: Poor, Needs Treatment"
Advisory == "Water may require treatment."
DailyLine == "Logging Sensor Values at: 10:00:00 AM"

\* The number of acquisition cycles reported in the lines.
AcquisitionCount(lines) ==
  Cardinality({i \in DOMAIN lines : lines[i] \in {Excellent, NeedsTreatment}})

\* ms between the last periodic reading and now, the counter not having wrapped.
ElapsedMs == Uptime - (lastReadingTime[1] * Half + lastReadingTime[2])

Ten == [hour |-> 10, minute |-> 0, second |-> 0]

Logged == \E i \in DOMAIN trace : trace[i] = "log"

\* C1: an iteration that reaches the run-state check while Halted ends there,
\* after the pause: it writes nothing, emits no daily log, performs no
\* acquisition and leaves lastReadingTime alone; the interpreter has run
\* before the check and runs first in the next iteration, and an "s" read
\* while Halted makes the state Running.
C1_HaltedSkipsScheduler ==
  [][ /\ (pc = "check" /\ ~isRunning) =>
           /\ trace = <<"command">>
           /\ pc' = "loop"
           /\ trace' = <<"command", "delay">>
           /\ UNCHANGED << lastReadingTime, dailyLogs, console, mySerial,
                           isRunning, now >>
      /\ (pc = "loop" /\ ~isRunning) =>
           /\ pc' = "check"
           /\ trace' = <<"command">>
           /\ (command' = Start => isRunning')
    ]_vars

\* C1 witness: a Halted iteration has ended while the periodic reading was due.
C1_Witness ==
  /\ pc = "loop"
  /\ ~isRunning
  /\ trace = <<"command", "delay">>
  /\ PeriodicDue
  /\ lastReadingTime = U32(0)

\* C2: while Halted, the iteration that reads "r" or "R" performs exactly
\* one acquisition cycle, whatever the time since the last reading, ends at
\* the Halted pause without another one, and leaves the state Halted.
C2_ReadWhileHalted ==
  [][ /\ (pc = "loop" /\ ~isRunning /\ command' \in Reads) =>
           /\ AcquisitionCount(console') = 1
           /\ Len(mySerial') = 1
           /\ ~isRunning'
      /\ (pc = "check" /\ ~isRunning /\ command \in Reads) =>
           /\ pc' = "loop"
           /\ AcquisitionCount(console') = 1
           /\ Len(mySerial') = 1
           /\ ~isRunning'
    ]_vars

\* C2 witness: Halted, "R" was read less than a reading interval after boot,
\* one cycle was performed and the iteration has ended.
C2_Witness ==
  /\ pc = "loop"
  /\ ~isRunning
  /\ command = <<"R">>
  /\ AcquisitionCount(console) = 1
  /\ ~PeriodicDue

\* C3: the run state is Running until setup() has run, and a step changes it
\* only by reading "st" (to Halted) or "s" (to Running); every other step
\* leaves it as it was.
C3_RunStateOnlyByCommands ==
  [][ /\ (pc = "setup" => isRunning)
      /\ (isRunning' # isRunning => pc = "loop" /\ command' \in {Stop, Start})
      /\ (pc = "loop" =>
            isRunning' = IF command' = Stop THEN FALSE
                         ELSE IF command' = Start THEN TRUE
                         ELSE isRunning)
    ]_vars

\* C3 witness: Halted by "st", and an iteration that read "c" has ended.
C3_Witness ==
  /\ pc = "loop"
  /\ ~isRunning
  /\ command = Clear
  /\ Len(console) = 50

\* C4: at the periodic test of a Running iteration, the reading fires exactly
\* when 60000 ms or more have passed since lastReadingTime; then
\* lastReadingTime becomes the time of the test and one acquisition cycle is
\* performed; otherwise lastReadingTime and both outputs stay as they were.
C4_PeriodicTrigger ==
  [][ pc = "periodic" =>
        /\ isRunning
        /\ pc' = "loop"
        /\ IF ElapsedMs >= 60000
           THEN /\ lastReadingTime' = millis
                /\ AcquisitionCount(console') = AcquisitionCount(console) + 1
                /\ Len(mySerial') = Len(mySerial) + 1
           ELSE /\ UNCHANGED << lastReadingTime, console, mySerial >>
    ]_vars

\* C4 witness: the reading fired exactly 60000 ms after boot.
C4_Witness ==
  /\ pc = "loop"
  /\ trace = <<"command", "sample", "read">>
  /\ lastReadingTime = U32(60000)
  /\ AcquisitionCount(console) = 1

\* C5: an iteration emits the daily log only if it is Running and its clock
\* sample is hour 10, minute 0, second 0; every daily log emitted sampled
\* the second 10:00:00 of its day.
C5_DailyOnlyAtTen ==
  /\ Logged =>
       /\ isRunning
       /\ now = Ten
       /\ \E i \in DOMAIN console : console[i] = DailyLine
  /\ (\E i \in DOMAIN console : console[i] = DailyLine) => Logged
  /\ \A i \in DOMAIN dailyLogs : dailyLogs[i] % 86400 = 36000

\* C5 witness: a Running iteration sampled 10:00:00 and emitted the log.
C5_Witness ==
  /\ Logged
  /\ now = Ten
  /\ Len(dailyLogs) = 1

\* C6: no two daily logs sample the same second.
C6_OncePerSecond ==
  \A i, j \in DOMAIN dailyLogs : i # j => dailyLogs[i] # dailyLogs[j]

\* C6 witness: the iteration after the one that logged samples 10:00:01.
C6_Witness ==
  /\ Len(dailyLogs) = 1
  /\ pc = "periodic"
  /\ now = [hour |-> 10, minute |-> 0, second |-> 1]
  /\ ~Logged

ValidOrder(t) ==
  \E full \in { <<"command", "delay">>,
                <<"command", "sample", "read">>,
                <<"command", "sample", "skip">>,
                <<"command", "sample", "log", "delay", "read">>,
                <<"command", "sample", "log", "delay", "skip">> } :
    /\ Len(t) <= Len(full)
    /\ t = SubSeq(full, 1, Len(t))

\* C7: an iteration runs the interpreter, then the run-state check, then the
\* daily trigger, then the periodic trigger; "s" read while Halted makes the
\* same iteration sample the clock for the scheduler, "st" read while
\* Running makes the same iteration end at the Halted pause with no log and
\* no reading.
C7_OrderWithinIteration ==
  [][ /\ ValidOrder(trace')
      /\ (pc = "loop" /\ ~isRunning /\ command' = Start) => isRunning'
      /\ (pc = "check" /\ command = Start) =>
           /\ pc' = "periodic"
           /\ trace'[2] = "sample"
           /\ now' # NoSample
      /\ (pc = "loop" /\ isRunning /\ command' = Stop) => ~isRunning'
      /\ (pc = "check" /\ command = Stop) =>
           /\ pc' = "loop"
           /\ trace' = <<"command", "delay">>
           /\ UNCHANGED << console, mySerial, lastReadingTime, dailyLogs >>
    ]_vars

\* C7 witness: "st" was read at 10:00:00 with the periodic reading due, and
\* the iteration has ended with neither.
C7_Witness ==
  /\ pc = "loop"
  /\ command = Stop
  /\ PeriodicDue
  /\ (rtc \div 1000) % 86400 = 36000
  /\ dailyLogs = <<>>
  /\ console = <<"Execution halted.">>

\* C8: a daily log is emitted on a day only by a Running iteration that
\* sampled the clock during the second 10:00:00 of that day.
C8_MissedLogIsSkipped ==
  \A i \in DOMAIN dailyLogs : (dailyLogs[i] \div 86400) \in tenSampled

\* C8 witness: no Running iteration sampled 10:00:00, a Running iteration
\* samples 10:00:01 and no log has been emitted.
C8_Witness ==
  /\ tenSampled = {}
  /\ pc = "periodic"
  /\ isRunning
  /\ now = [hour |-> 10, minute |-> 0, second |-> 1]
  /\ dailyLogs = <<>>

\* C9: in every report, the verdict is Excellent exactly when the three
\* labels are all "Good", NeedsTreatment otherwise, and the advisory line
\* follows the verdict exactly when it is NeedsTreatment.
C9_OverallVerdict ==
  \A i \in DOMAIN console :
    console[i] \in { "pH Quality: Acidic - Bad", "pH Quality: Good",
                     "pH Quality: Bad - Alkaline" } =>
      LET allGood == /\ console[i] = "pH Quality: Good"
                     /\ console[i + 2] = "Turbidity Quality: Good"
                     /\ console[i + 4] = "TDS Quality: Good"
      IN  /\ console[i + 2] \in {"Turbidity Quality: Good", "Turbidity Quality: Bad"}
          /\ console[i + 4] \in {"TDS Quality: Good", "TDS Quality: Bad"}
          /\ console[i + 5] = IF allGood THEN Excellent ELSE NeedsTreatment
          /\ (console[i + 6] = Advisory) <=> ~allGood

\* C9 witness: a report with the labels Good, Good, Bad.
C9_Witness ==
  \E i \in DOMAIN console :
    /\ console[i] = "pH Quality: Good"
    /\ console[i + 2] = "Turbidity Quality: Good"
    /\ console[i + 4] = "TDS Quality: Bad"
    /\ console[i + 5] = NeedsTreatment
    /\ console[i + 6] = Advisory

\* C10: a trimmed command other than "st", "s", "c", "r" or "R" makes the
\* interpreter write nothing, perform no acquisition and leave the run
\* state and lastReadingTime as they were.
C10_UnrecognizedIgnored ==
  [][ (pc = "loop" /\ command' \notin {Stop, Start, Clear, NoCommand} \cup Reads) =>
        /\ pc' = "check"
        /\ console' = <<>>
        /\ mySerial' = <<>>
        /\ trace' = <<"command">>
        /\ UNCHANGED << isRunning, lastReadingTime >>
    ]_vars

\* C10 witness: "ST" was read while Running and the state is still Running.
C10_Witness ==
  /\ pc = "check"
  /\ command = <<"S", "T">>
  /\ isRunning
  /\ console = <<>>

\* The positions of the verdict lines, one per acquisition cycle reported.
VerdictAt(lines) ==
  {i \in DOMAIN lines : lines[i] \in {Excellent, NeedsTreatment}}

\* C11: the ESP32 link carries exactly one line per acquisition cycle of the
\* current loop() call, manual or periodic, and nothing else: as many lines as
\* cycles reported on the console, the k-th line being the pH value that the
\* k-th report prints (six lines above its verdict), and the last one the
\* printed form of the pH value just computed; a command, a confirmation, the
\* daily log and the verdict add nothing to it.
C11_LinkCarriesOnlyPH ==
  /\ Len(mySerial) = AcquisitionCount(console)
  /\ \A k \in DOMAIN mySerial :
       \E i \in VerdictAt(console) :
         /\ Cardinality({j \in VerdictAt(console) : j <= i}) = k
         /\ i > 6
         /\ console[i - 6] = "pH Value: " \o mySerial[k]
  /\ reading # NoReading =>
       /\ mySerial # <<>>
       /\ mySerial[Len(mySerial)] = printFloat2(reading.pH)
  /\ reading = NoReading => mySerial = <<>>

\* A manual and a periodic cycle of one loop() call, with the daily log
\* between them: two lines on the link, the two pH values.
C11_Witness ==
  /\ mySerial = <<"6.91", "0.00">>
  /\ command \in Reads
  /\ \E i \in DOMAIN console : console[i] = DailyLine

AcidicBad == "Acidic - Bad"
Good == "Good"
AlkalineBad == "Bad - Alkaline"

\* C12: the pH label is decided by the pH voltage alone, whatever pH value is
\* passed with it: a voltage of at most 2.29 V is "Acidic - Bad", one from
\* 2.30 V to 2.50 V is "Good", every other one is "Bad - Alkaline"; 2.29 V is
\* acidic, 2.30 V and 2.50 V are good, 2.51 V is alkaline.
C12_LabelFromVoltage ==
  pc = "label" =>
    /\ reading.voltage <= 22900 => reading.quality = AcidicBad
    /\ (reading.voltage >= 23000 /\ reading.voltage <= 25000) =>
         reading.quality = Good
    /\ (reading.voltage > 22900 /\ reading.voltage < 23000) =>
         reading.quality = AlkalineBad
    /\ reading.voltage > 25000 => reading.quality = AlkalineBad
    /\ reading.voltage = 22900 => reading.quality = AcidicBad
    /\ reading.voltage = 23000 => reading.quality = Good
    /\ reading.voltage = 25000 => reading.quality = Good
    /\ reading.voltage = 25100 => reading.quality = AlkalineBad

\* 2.50 V is labelled "Good" although the pH value computed from it, 7.5, was
\* reached through the upper band.
C12_Witness ==
  /\ pc = "label"
  /\ reading = [voltage |-> 25000, pH |-> 75000, quality |-> Good]

\* The voltage rises by one step: the pH value of the step below is still in
\* reading, the pH value of the new voltage is in reading'.
Raised == pc = "label" /\ pc' = "value"

\* Two pH values no further apart than one step of the steepest band (3 pH
\* per volt) and the rounding of the model's unit.
Close(p, q) == p - q <= 4 /\ q - p <= 4

\* C13, as the specification states it: the pH value is continuous at each
\* band boundary, 1.6 V, 2.0 V and 2.5 V, where the value reached from the
\* band below equals the value of the band above at its low end.
C13_ContinuousAtEveryBoundary ==
  [][ (Raised /\ reading'.voltage \in {16000, 20000, 25000})
        => Close(reading.pH, reading'.pH) ]_vars

\* C13, amended: the pH value is linear inside each band (rising by 10/6,
\* 10/4, 3 and 3 units per step), exact at the low end and at the midpoint of
\* each band (1.3 V gives 7.5), continuous at 1.6 V and at 2.5 V, and at 2.0 V
\* it falls from 9.0, the value reached from the band below, to 6.0.
C13_PiecewiseLinear ==
  [][ Raised =>
        LET v == reading'.voltage
            p == reading.pH
            q == reading'.pH
        IN  /\ (v > 10000 /\ v < 16000) => q - p \in {1, 2}
            /\ (v > 16000 /\ v < 20000) => q - p \in {2, 3}
            /\ (v > 20000 /\ v < 25000) => q - p = 3
            /\ (v > 25000 /\ v < 30000) => q - p = 3
            /\ v = 10000 => q = 70000
            /\ v = 13000 => q = 75000
            /\ v = 16000 => q = 80000 /\ Close(p, q)
            /\ v = 18000 => q = 85000
            /\ v = 20000 => q = 60000 /\ p = 89997
            /\ v = 22500 => q = 67500
            /\ v = 25000 => q = 75000 /\ Close(p, q)
            /\ v = 27500 => q = 82500 ]_vars

\* The pH value at 2.0 V, the low end of the third band.
C13_Witness ==
  /\ pc = "value"
  /\ reading.voltage = 20000
  /\ reading.pH = 60000

\* The report of the last acquisition cycle of the current loop() call is
\* complete and shows this pH value and this label: eight or nine lines from
\* "pH Value" to the separator, the same value on the ESP32 link.
Reported(value, label) ==
  /\ mySerial # <<>>
  /\ mySerial[Len(mySerial)] = value
  /\ \E i \in VerdictAt(console) :
       /\ \A j \in VerdictAt(console) : j <= i
       /\ i > 6
       /\ console[i - 6] = "pH Value: " \o value
       /\ console[i - 5] = "pH Quality: " \o label
       /\ \E n \in {1, 2} :
            /\ i + n <= Len(console)
            /\ console[i + n] = "------------------------------------------"

\* C14: a pH voltage below 1.0 V or of 3.0 V and more gives the pH value 0,
\* and the cycle goes on as any other: 0.00 is reported on the console and
\* on the ESP32 link, the label and the verdict are computed; a voltage from
\* 1.0 V up to 3.0 V gives a pH value other than 0.  The raw sample 620
\* (3.03 V) is reported as 0.00, "Bad - Alkaline", and the water as poor.
C14_SentinelOutsideBands ==
  reading # NoReading =>
    /\ (reading.voltage < 10000 \/ reading.voltage >= 30000) =>
         /\ reading.pH = 0
         /\ Reported("0.00", reading.quality)
    /\ (reading.voltage >= 10000 /\ reading.voltage < 30000) =>
         reading.pH # 0
    /\ reading.voltage < 10000 => reading.quality = AcidicBad
    /\ reading.voltage >= 30000 => reading.quality = AlkalineBad
    /\ reading.voltage = voltageOf(620) =>
         /\ Reported("0.00", AlkalineBad)
         /\ \E i \in DOMAIN console : console[i] = NeedsTreatment

\* The manual cycle of the raw sample 620.
C14_Witness ==
  /\ reading = [voltage |-> 30303, pH |-> 0, quality |-> AlkalineBad]
  /\ command \in Reads
  /\ mySerial = <<"0.00">>
  /\ console[1] = "pH Value: 0.00"
  /\ console[7] = NeedsTreatment

NoRtcLine == "Couldn't find RTC"

\* C15: when the clock is not found at startup the sketch never enters the
\* control loop: the step that reports the missing clock ends in the halt
\* state, having processed no command, performed no acquisition and emitted
\* no daily log, and no step is ever taken from the halt state.
C15_NoClockNoLoop ==
  [][ /\ pc # "halt"
      /\ (\E i \in DOMAIN console' : console'[i] = NoRtcLine) =>
           /\ pc = "setup"
           /\ pc' = "halt"
           /\ console' = <<NoRtcLine>>
           /\ command' = NoCommand
           /\ trace' = <<>>
           /\ mySerial' = <<>>
           /\ reading' = NoReading
           /\ dailyLogs' = <<>>
           /\ millis' = millis /\ lastReadingTime' = lastReadingTime
           /\ isRunning' = isRunning ]_vars

\* The sketch in the while (1) of setup().
C15_Witness ==
  /\ pc = "halt"
  /\ console = <<NoRtcLine>>
  /\ trace = <<>>

\* This step takes a periodic reading.
PeriodicReads == pc = "periodic" /\ trace' = Append(trace, "read")

\* C16: a periodic reading is taken no sooner than 60000 ms of real time
\* after the periodic reading before it (or after boot), whatever commands
\* came in between and however long the sketch was Halted: resuming after a
\* halt of many intervals brings one periodic reading, not one per interval
\* missed.
C16_ReadingsApart ==
  [][ PeriodicReads =>
        /\ rtc - lastReadingAt >= readingInterval
        /\ lastReadingTime' = millis
        /\ lastReadingAt' = rtc
        /\ AcquisitionCount(console') = AcquisitionCount(console) + 1 ]_vars

\* The periodic reading of the iteration that read "s", after a halt.
C16_Witness ==
  /\ command = Start
  /\ trace = <<"command", "sample", "read">>
  /\ rtc - lastReadingAt = 200
  /\ AcquisitionCount(console) = 1

\* C19: the periodic test, made on the 32-bit counter, agrees with real time
\* when the counter wraps between two readings: at line 104 the reading is
\* taken exactly when 60000 ms or more have really passed since
\* lastReadingTime was assigned, neither sooner nor later.
C19_TriggerAcrossWrap ==
  [][ pc = "periodic" =>
        (PeriodicReads <=> rtc - lastReadingAt >= readingInterval) ]_vars

\* The reading taken at the instant the counter wraps to 0, its last
\* predecessor 60000 ms back, before the wrap.
C19_Witness ==
  /\ trace[Len(trace)] = "read"
  /\ lastReadingTime = U32(0)
  /\ millis = U32(200)
  /\ lastReadingAt = TimeOfDay(9, 59, 59)
  /\ isRunning

\* C18: a manual reading leaves lastReadingTime as it was, so the periodic
\* reading falls due at the same time with or without manual readings in
\* between: the iteration that takes a manual reading still takes the
\* periodic one when 60000 ms have passed since the last periodic reading.
C18_ManualLeavesTimer ==
  [][ /\ (pc = "loop" /\ command' \in Reads) =>
           /\ lastReadingTime' = lastReadingTime
           /\ lastReadingAt' = lastReadingAt
           /\ AcquisitionCount(console') = 1
      /\ (pc = "periodic" /\ command \in Reads) =>
           (PeriodicReads <=> rtc - lastReadingAt >= readingInterval) ]_vars

\* An iteration with both readings: the manual one first, then the periodic
\* one, which alone has set lastReadingTime.
C18_Witness ==
  /\ command \in Reads
  /\ trace = <<"command", "sample", "read">>
  /\ AcquisitionCount(console) = 2
  /\ Len(mySerial) = 2
  /\ rtc - lastReadingAt = 200

\* The raw samples whose pH voltage this is (one at most).
RawOf(voltage) == {raw \in 0..1023 : voltageOf(raw) = voltage}

\* C20: the label does not follow the voltage monotonically: every voltage
\* strictly between 2.29 V and 2.30 V is "Bad - Alkaline", below it the
\* label is "Acidic - Bad" and above it "Good".  For the voltage of a raw
\* sample, raw / 1023 * 5: "Good" exactly for the samples 471 to 511,
\* "Acidic - Bad" up to 468, "Bad - Alkaline" for 469, 470 and from 512 on.
C20_AlkalineGap ==
  pc = "label" =>
    /\ (reading.voltage > 22900 /\ reading.voltage < 23000) =>
         reading.quality = AlkalineBad
    /\ \A raw \in RawOf(reading.voltage) :
         /\ reading.quality = Good <=> (raw >= 471 /\ raw <= 511)
         /\ reading.quality = AcidicBad <=> raw <= 468
         /\ reading.quality = AlkalineBad <=> (raw \in {469, 470} \/ raw >= 512)

\* The raw sample 469 (2.2922 V): alkaline between an acidic and a good one.
C20_Witness ==
  /\ pc = "label"
  /\ reading.voltage = voltageOf(469)
  /\ reading.voltage > voltageOf(468)
  /\ reading.voltage < voltageOf(471)
  /\ reading.quality = AlkalineBad

\* A periodic reading has been taken since the model started.
PeriodicReadingTaken == \E b \in LiveInputs.boot : lastReadingAt >= b

====
